---- MODULE Spec2Model ----
(***************************************************************************)
(* The activity queue of activitypub-federation: ActivityQueue (round      *)
(* robin dispatch over per-worker unbounded channels), worker, retry,      *)
(* sign_and_send / send, the hourly reset task, shutdown, the adapter       *)
(* send_activity and the test against dodgy_handler                        *)
(* (src/src/activity_queue.rs), and the sign-once delivery path of         *)
(* src/src/queue/request.rs; further the debug mode of the earlier         *)
(* send_activity (src/src/core/activity_queue.rs), receive_activity        *)
(* (src/src/axum/inbox.rs), the round-robin cursor at its full 64-bit      *)
(* width (SpecWrap) and the queue under fair scheduling (SpecLive).        *)
(*                                                                         *)
(* Every atomic operation of the code (fetch_add, fetch_sub, store, a      *)
(* channel send or recv) is one step, so that every interleaving of        *)
(* submitters, workers, the reset task and shutdown is explored.           *)
(* An AtomicUsize is represented by its value as an integer; a fetch_sub   *)
(* at 0 would wrap to usize::MAX, which is represented by -1 (the same     *)
(* residue modulo 2^64).                                                   *)
(***************************************************************************)
EXTENDS Integers, Sequences, FiniteSets, TLC

\* ---------------------------------------------------------------- bounds
\* Number of queue() calls explored.
MaxTasks == 2
\* Largest worker_count handed to ActivityQueue::new.
MaxWorkers == 2
\* Number of tasks of the caller that call queue() concurrently.
NumSubmitters == 2
\* Number of times the hourly reset fires during a run.
MaxResets == 1
\* Longest inbox list handed to send_activity.
MaxInboxes == 5

\* ------------------------------------------------------ program constants
MAX_RETRIES == 3
BACKOFF == 60
\* tests::dodgy_handler: one request in DODGY_PERIOD is answered 500.
DODGY_PERIOD == 20

\* RetryStrategy { backoff, retries } of create_activity_queue.
DefaultStrategy == [backoff |-> BACKOFF, retries |-> MAX_RETRIES]
\* The strategies ActivityQueue::new is given.
Strategies == {DefaultStrategy,
               [backoff |-> 2, retries |-> 1], [backoff |-> 3, retries |-> 0]}
\* The strategy explored with more than one worker.
ShortStrategy == [backoff |-> 2, retries |-> 1]
\* The (worker_count, strategy) pairs ActivityQueue::new is called with.
Configs == {c \in [worker_count : 1..MaxWorkers, strategy : Strategies] :
              c.worker_count > 1 => c.strategy = ShortStrategy}

TaskIds == 0..(MaxTasks - 1)
NoTask == [id |-> -1]

\* What client.execute(request) and the reading of the response body give:
\*   "2xx"          Ok(o), o.status().is_success()
\*   "4xx"          Ok(o), o.status().is_client_error(), text_limited() Ok
\*   "4xx_text_err" Ok(o), o.status().is_client_error(), text_limited() Err
\*   "5xx"          Ok(o), any other status (text_limited() Ok or Err: both
\*                  return Err from send)
\*   "io_err"       Err(e): no response
Responses == {"2xx", "4xx", "4xx_text_err", "5xx", "io_err"}

VARIABLES
    worker_count,     \* senders.len(): the worker_count given to new
    strategy,         \* the RetryStrategy given to new
    senders,          \* senders[i]: the messages in worker i's channel
    senders_dropped,  \* shutdown has dropped self.senders
    last_sender_idx,  \* the round robin cursor
    stats,            \* pending, running, dead_last_hour, completed_last_hour
    sub,              \* per submitter: its position in queue()
    wk,               \* per worker: its position in worker() and retry()
    reset,            \* the reset task: its position, abort requested
    sd,               \* shutdown(): its position, join index, result
    peer,             \* the remote inbox: requests received, all answered 5xx
    hist,             \* history: what happened to each task
    dl                \* send_activity: its inputs, position and result

vars == <<worker_count, strategy, senders, senders_dropped, last_sender_idx,
          stats, sub, wk, reset, sd, peer, hist, dl>>

Workers == 0..(worker_count - 1)

\* ------------------------------------------------------- pure functions

RECURSIVE pow(_, _)
\* usize::pow
pow(b, n) == IF n = 0 THEN 1 ELSE b * pow(b, n - 1)

\* Variant: the backoff grows linearly (backoff * count).
sleep_amt_linear(strat, count) == strat.backoff * count

\* retry: let sleep_amt = strategy.backoff.pow(count as u32) as u64
sleep_amt(strat, count) == pow(strat.backoff, count)

\* Variant: one retry too many (count <= retries).
may_retry_inclusive(strat, count) == count <= strat.retries

\* retry: if count < strategy.retries
may_retry(strat, count) == count < strat.retries

\* Variant: the cursor is read after the increment.
idx_to_send_incremented(cursor, len) == (cursor + 1) % len

\* queue: fetch_add(1) % self.senders.len()
idx_to_send(cursor, len) == cursor % len

\* AtomicUsize::fetch_add(1) / fetch_sub(1): the new value
fetch_add(v) == v + 1
fetch_sub(v) == v - 1

Ok == [ok |-> TRUE, err |-> "none"]
Err(e) == [ok |-> FALSE, err |-> e]

\* send (activity_queue.rs): the Result of one HTTP attempt
send(resp) ==
    CASE resp = "2xx" -> Ok
      [] resp = "4xx" -> Ok
      [] resp = "4xx_text_err" -> Err(resp)
      [] resp = "5xx" -> Err(resp)
      [] resp = "io_err" -> Ok

\* The remote inbox after the attempt that ended with resp.  received counts
\* the requests sent to it (one that ends in a transport error is counted
\* too); only_5xx: every request so far was answered 5xx.
peer_receives(resp) ==
    [peer EXCEPT !.received = @ + 1, !.only_5xx = @ /\ resp = "5xx"]

\* generate_request_headers: inbox_url.domain().expect("read inbox domain")
\* panics when the inbox of the message has no domain (its host is an IP
\* address).  The inbox is an input that nothing reads before the first
\* attempt, so it is drawn there: w is the frame that builds the headers.
generate_request_headers_may_panic(w) == w.signed = 0

\* ----------------------------------------------------------------- Init

SubIdle == [pc |-> "idle", idx |-> 0, message |-> NoTask]
WkInit == [pc |-> "recv", message |-> NoTask, count |-> 0, signed |-> 0,
           log |-> <<>>, slept |-> <<>>, outcome |-> Ok]
HistInit == [sent |-> 0, placed |-> -1, attempted |-> FALSE, fate |-> "none"]
\* No send_activity call: queue() is called directly (as the test does).
DlNone == [pc |-> "none"]

Init ==
    /\ \E c \in Configs : worker_count = c.worker_count /\ strategy = c.strategy
    /\ senders = [i \in 0..(worker_count - 1) |-> <<>>]
    /\ senders_dropped = FALSE
    /\ last_sender_idx = 0
    /\ stats = [pending |-> 0, running |-> 0, dead_last_hour |-> 0,
                completed_last_hour |-> 0]
    /\ sub = [s \in 1..NumSubmitters |-> SubIdle]
    /\ wk = [i \in 0..(worker_count - 1) |-> WkInit]
    /\ reset = [pc |-> "sleep", abort |-> FALSE, fired |-> 0]
    /\ sd = [pc |-> "none", i |-> 0, result |-> "none", stats |-> stats]
    /\ peer = [received |-> 0, only_5xx |-> TRUE]
    /\ hist = [t \in TaskIds |-> HistInit]
    /\ dl = DlNone

\* The receiver of channel i is dropped: its worker returned or panicked.
receiver_dropped(i) == wk[i].pc \in {"exited", "panicked"}

\* Number of messages channel i has accepted so far.
nsent(i) == Cardinality({t \in TaskIds : hist[t].placed = i})

\* ------------------------------------------------------ ActivityQueue::queue

\* let idx_to_send = self.last_sender_idx.fetch_add(1, Relaxed) % self.senders.len();
QueueFetchAddIdx(s) ==
    /\ sub[s].pc = "idle"
    /\ sd.pc = "none"
    /\ last_sender_idx < MaxTasks
    /\ sub' = [sub EXCEPT ![s] =
                 [pc |-> "pending", idx |-> idx_to_send(last_sender_idx, worker_count),
                  message |-> [id |-> last_sender_idx]]]
    /\ last_sender_idx' = fetch_add(last_sender_idx)
    /\ UNCHANGED <<worker_count, strategy, senders, senders_dropped, stats, wk,
                   reset, sd, hist, peer>>

\* Variant: queue() does not count the task as pending.
QueueFetchAddPending_Forgotten(s) ==
    /\ sub[s].pc = "pending"
    /\ sub' = [sub EXCEPT ![s].pc = "send"]
    /\ UNCHANGED <<worker_count, strategy, senders, senders_dropped,
                   last_sender_idx, stats, wk, reset, sd, peer, hist>>

\* self.stats.pending.fetch_add(1, Relaxed);
QueueFetchAddPending(s) ==
    /\ sub[s].pc = "pending"
    /\ stats' = [stats EXCEPT !.pending = fetch_add(@)]
    /\ sub' = [sub EXCEPT ![s].pc = "send"]
    /\ UNCHANGED <<worker_count, strategy, senders, senders_dropped,
                   last_sender_idx, wk, reset, sd, hist, peer>>

\* Variant: a submit made while every worker is busy is refused.
QueueSend_RefusedWhenSaturated(s) ==
    /\ sub[s].pc = "send"
    /\ LET i == sub[s].idx
           m == sub[s].message
       IN IF receiver_dropped(i) \/ stats.running = worker_count
          THEN /\ hist' = [hist EXCEPT ![m.id].sent = -1]
               /\ UNCHANGED senders
          ELSE /\ senders' = [senders EXCEPT ![i] = Append(@, m)]
               /\ hist' = [hist EXCEPT ![m.id].sent = nsent(i) + 1,
                                       ![m.id].placed = i]
    /\ sub' = [sub EXCEPT ![s] = SubIdle]
    /\ UNCHANGED <<worker_count, strategy, senders_dropped, last_sender_idx,
                   stats, wk, reset, sd, peer>>

\* self.senders[idx_to_send].send(message)?; Ok(())
QueueSend(s) ==
    /\ sub[s].pc = "send"
    /\ LET i == sub[s].idx
           m == sub[s].message
       IN IF receiver_dropped(i)
          THEN \* Err(SendError): the queue is closed
               /\ hist' = [hist EXCEPT ![m.id].sent = -1]
               /\ UNCHANGED senders
          ELSE /\ senders' = [senders EXCEPT ![i] = Append(@, m)]
               /\ hist' = [hist EXCEPT ![m.id].sent = nsent(i) + 1,
                                       ![m.id].placed = i]
    /\ sub' = [sub EXCEPT ![s] = SubIdle]
    /\ UNCHANGED <<worker_count, strategy, senders_dropped, last_sender_idx,
                   stats, wk, reset, sd, peer>>

\* ------------------------------------------------------------------ worker

\* Variant: the worker takes the newest message of its channel.
WorkerRecv_Newest(i) ==
    /\ wk[i].pc = "recv"
    /\ senders[i] # <<>>
    /\ wk' = [wk EXCEPT ![i] = [WkInit EXCEPT !.pc = "pending",
                                              !.message = senders[i][Len(senders[i])]]]
    /\ senders' = [senders EXCEPT ![i] = SubSeq(@, 1, Len(@) - 1)]
    /\ UNCHANGED <<worker_count, strategy, senders_dropped, last_sender_idx,
                   stats, sub, reset, sd, peer, hist>>

\* Variant: a worker whose channel is empty takes from another channel.
WorkerRecv_Steal(i) ==
    /\ wk[i].pc = "recv"
    /\ \E j \in Workers :
         /\ senders[j] # <<>>
         /\ j = i \/ senders[i] = <<>>
         /\ wk' = [wk EXCEPT ![i] = [WkInit EXCEPT !.pc = "pending",
                                                   !.message = Head(senders[j])]]
         /\ senders' = [senders EXCEPT ![j] = Tail(@)]
    /\ UNCHANGED <<worker_count, strategy, senders_dropped, last_sender_idx,
                   stats, sub, reset, sd, hist, peer>>

\* while let Some(message) = receiver.recv().await
WorkerRecv(i) ==
    /\ wk[i].pc = "recv"
    /\ senders[i] # <<>>
    /\ wk' = [wk EXCEPT ![i] = [WkInit EXCEPT !.pc = "pending",
                                              !.message = Head(senders[i])]]
    /\ senders' = [senders EXCEPT ![i] = Tail(@)]
    /\ UNCHANGED <<worker_count, strategy, senders_dropped, last_sender_idx,
                   stats, sub, reset, sd, hist, peer>>

\* Variant: the worker stops as soon as the senders are dropped.
WorkerExit_NoDrain(i) ==
    /\ wk[i].pc = "recv"
    /\ senders_dropped
    /\ wk' = [wk EXCEPT ![i].pc = "exited"]
    /\ senders' = [senders EXCEPT ![i] = <<>>]
    /\ UNCHANGED <<worker_count, strategy, senders_dropped, last_sender_idx,
                   stats, sub, reset, sd, hist, peer>>

\* recv() returns None: every sender is dropped and the channel is empty.
WorkerExit(i) ==
    /\ wk[i].pc = "recv"
    /\ senders[i] = <<>>
    /\ senders_dropped
    /\ wk' = [wk EXCEPT ![i].pc = "exited"]
    /\ UNCHANGED <<worker_count, strategy, senders, senders_dropped,
                   last_sender_idx, stats, sub, reset, sd, hist, peer>>

\* stats.pending.fetch_sub(1, Relaxed);
WorkerFetchSubPending(i) ==
    /\ wk[i].pc = "pending"
    /\ stats' = [stats EXCEPT !.pending = fetch_sub(@)]
    /\ wk' = [wk EXCEPT ![i].pc = "running"]
    /\ UNCHANGED <<worker_count, strategy, senders, senders_dropped,
                   last_sender_idx, sub, reset, sd, hist, peer>>

\* Variant: the worker does not count the task as running.
WorkerFetchAddRunning_Forgotten(i) ==
    /\ wk[i].pc = "running"
    /\ wk' = [wk EXCEPT ![i].pc = "action", ![i].count = 0]
    /\ UNCHANGED <<worker_count, strategy, senders, senders_dropped,
                   last_sender_idx, stats, sub, reset, sd, peer, hist>>

\* stats.running.fetch_add(1, Relaxed); retry: let mut count = 0;
WorkerFetchAddRunning(i) ==
    /\ wk[i].pc = "running"
    /\ stats' = [stats EXCEPT !.running = fetch_add(@)]
    /\ wk' = [wk EXCEPT ![i].pc = "action", ![i].count = 0]
    /\ UNCHANGED <<worker_count, strategy, senders, senders_dropped,
                   last_sender_idx, sub, reset, sd, hist, peer>>

\* retry: what follows one action().await that gave `result`
retry_step(w, result) ==
    IF result.ok
    THEN [w EXCEPT !.pc = "done", !.outcome = result]
    ELSE IF may_retry(strategy, w.count)
         THEN [w EXCEPT !.pc = "sleep", !.count = w.count + 1,
                        !.slept = Append(@, sleep_amt(strategy, w.count + 1))]
         ELSE [w EXCEPT !.pc = "done", !.outcome = result]

\* retry: action().await, where action is sign_and_send(&message, ..): the
\* request is built and signed, sent, and the response classified by send.
RetryAction(i) ==
    /\ wk[i].pc = "action"
    /\ \E resp \in Responses :
         /\ wk' = [wk EXCEPT ![i] =
                    retry_step([wk[i] EXCEPT !.signed = @ + 1,
                                             !.log = Append(@, resp)],
                               send(resp))]
         /\ peer' = peer_receives(resp)
    /\ hist' = [hist EXCEPT ![wk[i].message.id].attempted = TRUE]
    /\ UNCHANGED <<worker_count, strategy, senders, senders_dropped,
                   last_sender_idx, stats, sub, reset, sd>>

\* sign_and_send panics in generate_request_headers: the worker task ends
\* abnormally, its receiver is dropped with the messages still in the channel.
WorkerPanic(i) ==
    /\ wk[i].pc = "action"
    /\ generate_request_headers_may_panic(wk[i])
    /\ wk' = [wk EXCEPT ![i].pc = "panicked"]
    /\ senders' = [senders EXCEPT ![i] = <<>>]
    /\ hist' = [hist EXCEPT ![wk[i].message.id].attempted = TRUE]
    /\ UNCHANGED <<worker_count, strategy, senders_dropped, last_sender_idx,
                   stats, sub, reset, sd, peer>>

\* retry: tokio::time::sleep(sleep_dur).await; continue;
RetrySleep(i) ==
    /\ wk[i].pc = "sleep"
    /\ wk' = [wk EXCEPT ![i].pc = "action"]
    /\ UNCHANGED <<worker_count, strategy, senders, senders_dropped,
                   last_sender_idx, stats, sub, reset, sd, hist, peer>>

\* stats.running.fetch_sub(1, Relaxed);
WorkerFetchSubRunning(i) ==
    /\ wk[i].pc = "done"
    /\ stats' = [stats EXCEPT !.running = fetch_sub(@)]
    /\ wk' = [wk EXCEPT ![i].pc = "outcome"]
    /\ UNCHANGED <<worker_count, strategy, senders, senders_dropped,
                   last_sender_idx, sub, reset, sd, hist, peer>>

\* Variant: the arms of the match are swapped.
WorkerMatchOutcome_Swapped(i) ==
    /\ wk[i].pc = "outcome"
    /\ IF wk[i].outcome.ok
       THEN /\ stats' = [stats EXCEPT !.dead_last_hour = fetch_add(@)]
            /\ hist' = [hist EXCEPT ![wk[i].message.id].fate = "dead"]
       ELSE /\ stats' = [stats EXCEPT !.completed_last_hour = fetch_add(@)]
            /\ hist' = [hist EXCEPT ![wk[i].message.id].fate = "completed"]
    /\ wk' = [wk EXCEPT ![i] = WkInit]
    /\ UNCHANGED <<worker_count, strategy, senders, senders_dropped,
                   last_sender_idx, sub, reset, sd, peer>>

\* Variant: the Err arm records nothing.
WorkerMatchOutcome_ErrDropped(i) ==
    /\ wk[i].pc = "outcome"
    /\ IF wk[i].outcome.ok
       THEN /\ stats' = [stats EXCEPT !.completed_last_hour = fetch_add(@)]
            /\ hist' = [hist EXCEPT ![wk[i].message.id].fate = "completed"]
       ELSE /\ hist' = [hist EXCEPT ![wk[i].message.id].fate = "dead"]
            /\ UNCHANGED stats
    /\ wk' = [wk EXCEPT ![i] = WkInit]
    /\ UNCHANGED <<worker_count, strategy, senders, senders_dropped,
                   last_sender_idx, sub, reset, sd, peer>>

\* Variant: a failed task is put back on the channel instead of recorded.
WorkerMatchOutcome_Requeue(i) ==
    /\ wk[i].pc = "outcome"
    /\ IF wk[i].outcome.ok
       THEN /\ stats' = [stats EXCEPT !.completed_last_hour = fetch_add(@)]
            /\ hist' = [hist EXCEPT ![wk[i].message.id].fate = "completed"]
            /\ UNCHANGED senders
       ELSE /\ senders' = [senders EXCEPT ![i] = Append(@, wk[i].message)]
            /\ UNCHANGED <<stats, hist>>
    /\ wk' = [wk EXCEPT ![i] = WkInit]
    /\ UNCHANGED <<worker_count, strategy, senders_dropped,
                   last_sender_idx, sub, reset, sd, peer>>

\* match outcome { Ok(_) => completed_last_hour += 1, Err(_) => dead_last_hour += 1 }
WorkerMatchOutcome(i) ==
    /\ wk[i].pc = "outcome"
    /\ IF wk[i].outcome.ok
       THEN /\ stats' = [stats EXCEPT !.completed_last_hour = fetch_add(@)]
            /\ hist' = [hist EXCEPT ![wk[i].message.id].fate = "completed"]
       ELSE /\ stats' = [stats EXCEPT !.dead_last_hour = fetch_add(@)]
            /\ hist' = [hist EXCEPT ![wk[i].message.id].fate = "dead"]
    /\ wk' = [wk EXCEPT ![i] = WkInit]
    /\ UNCHANGED <<worker_count, strategy, senders, senders_dropped,
                   last_sender_idx, sub, reset, sd, peer>>

\* -------------------------------------------------------------- reset task

\* tokio::time::sleep(duration).await; hour_stats.completed_last_hour.store(0)
ResetStoreCompleted ==
    /\ reset.pc = "sleep"
    /\ ~reset.abort
    /\ reset.fired < MaxResets
    /\ stats' = [stats EXCEPT !.completed_last_hour = 0]
    /\ reset' = [reset EXCEPT !.pc = "store_dead", !.fired = @ + 1]
    /\ UNCHANGED <<worker_count, strategy, senders, senders_dropped,
                   last_sender_idx, sub, wk, sd, hist, peer>>

\* Variant: the second store goes to completed_last_hour again.
ResetStoreDead_WrongCounter ==
    /\ reset.pc = "store_dead"
    /\ stats' = [stats EXCEPT !.completed_last_hour = 0]
    /\ reset' = [reset EXCEPT !.pc = "sleep"]
    /\ UNCHANGED <<worker_count, strategy, senders, senders_dropped,
                   last_sender_idx, sub, wk, sd, hist, peer>>

\* hour_stats.dead_last_hour.store(0, Relaxed); and back to the sleep
ResetStoreDead ==
    /\ reset.pc = "store_dead"
    /\ stats' = [stats EXCEPT !.dead_last_hour = 0]
    /\ reset' = [reset EXCEPT !.pc = "sleep"]
    /\ UNCHANGED <<worker_count, strategy, senders, senders_dropped,
                   last_sender_idx, sub, wk, sd, hist, peer>>

\* --------------------------------------------------- ActivityQueue::shutdown

\* shutdown(self) takes the queue by value: no queue(&self) call is in
\* progress and none can follow.  drop(self.senders);
ShutdownDropSenders ==
    /\ sd.pc = "none"
    /\ \A s \in DOMAIN sub : sub[s].pc = "idle"
    /\ senders_dropped' = TRUE
    /\ sd' = [sd EXCEPT !.pc = "abort"]
    /\ UNCHANGED <<worker_count, strategy, senders, last_sender_idx, stats,
                   sub, wk, reset, hist, peer>>

\* self.reset_handle.abort();
ShutdownAbortReset ==
    /\ sd.pc = "abort"
    /\ reset' = [reset EXCEPT !.abort = TRUE]
    /\ sd' = [sd EXCEPT !.pc = "join_reset"]
    /\ UNCHANGED <<worker_count, strategy, senders, senders_dropped,
                   last_sender_idx, stats, sub, wk, hist, peer>>

\* Variant: the reset task is aborted but not awaited.
ShutdownJoinReset_NotAwaited ==
    /\ sd.pc = "join_reset"
    /\ sd' = [sd EXCEPT !.pc = "join", !.i = 0]
    /\ UNCHANGED <<worker_count, strategy, senders, senders_dropped,
                   last_sender_idx, stats, sub, wk, reset, hist, peer>>

\* self.reset_handle.await.ok(); the aborted task ends at its sleep
ShutdownJoinReset ==
    /\ sd.pc = "join_reset"
    /\ reset.pc = "sleep"
    /\ reset' = [reset EXCEPT !.pc = "cancelled"]
    /\ sd' = [sd EXCEPT !.pc = "join", !.i = 0]
    /\ UNCHANGED <<worker_count, strategy, senders, senders_dropped,
                   last_sender_idx, stats, sub, wk, hist, peer>>

\* Variant: the JoinError of a panicked worker is dropped (handle.await.ok()).
ShutdownJoinWorker_ErrIgnored ==
    /\ sd.pc = "join"
    /\ sd.i < worker_count
    /\ receiver_dropped(sd.i)
    /\ sd' = [sd EXCEPT !.i = sd.i + 1]
    /\ UNCHANGED <<worker_count, strategy, senders, senders_dropped,
                   last_sender_idx, stats, sub, wk, reset, hist, peer>>

\* for handle in self.handles { handle.await?; }
ShutdownJoinWorker ==
    /\ sd.pc = "join"
    /\ sd.i < worker_count
    /\ receiver_dropped(sd.i)
    /\ IF wk[sd.i].pc = "panicked"
       THEN sd' = [sd EXCEPT !.pc = "returned", !.result = "join_error"]
       ELSE sd' = [sd EXCEPT !.i = sd.i + 1]
    /\ UNCHANGED <<worker_count, strategy, senders, senders_dropped,
                   last_sender_idx, stats, sub, wk, reset, hist, peer>>

\* The tasks that hold a clone of the Arc<Stats> besides the queue itself.
stats_holders ==
    {i \in Workers : ~receiver_dropped(i)} \cup
    (IF reset.pc = "cancelled" THEN {} ELSE {"reset"})

\* Arc::try_unwrap(self.stats).map_err(|_| anyhow!("Could not retrieve stats"))
ShutdownUnwrapStats ==
    /\ sd.pc = "join"
    /\ sd.i = worker_count
    /\ IF stats_holders = {}
       THEN sd' = [sd EXCEPT !.pc = "returned", !.result = "stats", !.stats = stats]
       ELSE sd' = [sd EXCEPT !.pc = "returned", !.result = "stats_shared"]
    /\ UNCHANGED <<worker_count, strategy, senders, senders_dropped,
                   last_sender_idx, stats, sub, wk, reset, hist, peer>>

\* -------------------------------------------------------------------- Next

Next ==
    \/ \E s \in DOMAIN sub : QueueFetchAddIdx(s) /\ UNCHANGED dl
    \/ \E s \in DOMAIN sub : QueueFetchAddPending(s) /\ UNCHANGED dl
    \/ \E s \in DOMAIN sub : QueueSend(s) /\ UNCHANGED dl
    \/ \E i \in Workers : WorkerRecv(i) /\ UNCHANGED dl
    \/ \E i \in Workers : WorkerExit(i) /\ UNCHANGED dl
    \/ \E i \in Workers : WorkerFetchSubPending(i) /\ UNCHANGED dl
    \/ \E i \in Workers : WorkerFetchAddRunning(i) /\ UNCHANGED dl
    \/ \E i \in Workers : RetryAction(i) /\ UNCHANGED dl
    \/ \E i \in Workers : WorkerPanic(i) /\ UNCHANGED dl
    \/ \E i \in Workers : RetrySleep(i) /\ UNCHANGED dl
    \/ \E i \in Workers : WorkerFetchSubRunning(i) /\ UNCHANGED dl
    \/ \E i \in Workers : WorkerMatchOutcome(i) /\ UNCHANGED dl
    \/ ResetStoreCompleted /\ UNCHANGED dl
    \/ ResetStoreDead /\ UNCHANGED dl
    \/ ShutdownDropSenders /\ UNCHANGED dl
    \/ ShutdownAbortReset /\ UNCHANGED dl
    \/ ShutdownJoinReset /\ UNCHANGED dl
    \/ ShutdownJoinWorker /\ UNCHANGED dl
    \/ ShutdownUnwrapStats /\ UNCHANGED dl

Spec == Init /\ [][Next]_vars

\* ------------------------------------------- queue/request.rs: sign_and_send
\* One call sign_and_send(message, client, timeout, retry_strategy, ..): the
\* request is signed once, then retry(|| send(.., request.try_clone()), ..).
\* wk[0] is the frame of the call; the queue around it takes no step.

\* send (queue/request.rs): the Result of one HTTP attempt
request_send(resp) ==
    CASE resp = "2xx" -> Ok
      [] resp = "4xx" -> Ok
      [] resp = "4xx_text_err" -> Err(resp)
      [] resp = "5xx" -> Err(resp)
      [] resp = "io_err" -> Err(resp)

InitRequest ==
    /\ worker_count = 1
    /\ strategy \in Strategies
    /\ senders = [i \in {0} |-> <<>>]
    /\ senders_dropped = FALSE
    /\ last_sender_idx = 0
    /\ stats = [pending |-> 0, running |-> 0, dead_last_hour |-> 0,
                completed_last_hour |-> 0]
    /\ sub = [s \in 1..NumSubmitters |-> SubIdle]
    /\ wk = [i \in {0} |-> [WkInit EXCEPT !.pc = "sign", !.message = [id |-> 0]]]
    /\ reset = [pc |-> "sleep", abort |-> FALSE, fired |-> 0]
    /\ sd = [pc |-> "none", i |-> 0, result |-> "none", stats |-> stats]
    /\ peer = [received |-> 0, only_5xx |-> TRUE]
    /\ hist = [t \in TaskIds |-> HistInit]
    /\ dl = DlNone

\* generate_request_headers(&message.inbox), sign_request(..).await
RequestSign ==
    /\ wk[0].pc = "sign"
    /\ wk' = [wk EXCEPT ![0].pc = "action", ![0].signed = @ + 1]
    /\ UNCHANGED <<worker_count, strategy, senders, senders_dropped,
                   last_sender_idx, stats, sub, reset, sd, peer, hist>>

\* generate_request_headers panics: inbox_url.domain().expect(..)
RequestPanic ==
    /\ wk[0].pc = "sign"
    /\ generate_request_headers_may_panic(wk[0])
    /\ wk' = [wk EXCEPT ![0].pc = "panicked"]
    /\ UNCHANGED <<worker_count, strategy, senders, senders_dropped,
                   last_sender_idx, stats, sub, reset, sd, peer, hist>>

\* retry: action().await, where action is send(message, client, request.try_clone())
RequestAction ==
    /\ wk[0].pc = "action"
    /\ \E resp \in Responses :
         /\ wk' = [wk EXCEPT ![0] =
                    retry_step([wk[0] EXCEPT !.log = Append(@, resp)],
                               request_send(resp))]
         /\ peer' = peer_receives(resp)
    /\ hist' = [hist EXCEPT ![wk[0].message.id].attempted = TRUE]
    /\ UNCHANGED <<worker_count, strategy, senders, senders_dropped,
                   last_sender_idx, stats, sub, reset, sd>>

NextRequest ==
    \/ RequestSign /\ UNCHANGED dl
    \/ RequestPanic /\ UNCHANGED dl
    \/ RequestAction /\ UNCHANGED dl
    \/ RetrySleep(0) /\ UNCHANGED dl

SpecRequest == InitRequest /\ [][NextRequest]_vars

\* ------------------------------------------------------------ send_activity
\* One call send_activity(activity, actor, inboxes, data) against a running
\* queue.  The call runs in the caller's task (submitter Caller); its
\* queue() call is the three steps of ActivityQueue::queue above.

\* The inbox urls of the input: three remote ones, one of the local
\* instance, one that verify_url_valid rejects.
Urls == {"A", "B", "C", "LOCAL", "INVALID"}
\* The remote inboxes that verify_url_valid accepts.
RemoteUrls == {"A", "B", "C"}
\* The inbox lists over the urls U.
InboxLists(U) == UNION {[1..n -> U] : n \in 0..MaxInboxes}
\* actor.private_key_pem(): None, a string that is no PEM key, a key.
Keys == {"none", "bad_pem", "valid"}
\* serde_json::to_vec(&activity): Ok or Err.
Activities == {"ok", "ser_err"}

\* config.is_local_url(url)
is_local_url(u) == u = "LOCAL"
\* config.verify_url_valid(url).await.is_ok()
verify_url_valid(u) == u # "INVALID"

RECURSIVE unique_keep_last(_)
\* Variant: of equal inboxes the last occurrence is kept.
unique_keep_last(q) ==
    IF q = <<>> THEN <<>>
    ELSE LET r == unique_keep_last(Tail(q))
         IN IF \E n \in 1..Len(r) : r[n] = Head(q) THEN r ELSE <<Head(q)>> \o r

RECURSIVE unique(_)
\* Itertools::unique: each element once, at the place of its first occurrence
unique(q) ==
    IF q = <<>> THEN <<>>
    ELSE LET r == unique(SubSeq(q, 1, Len(q) - 1))
             x == q[Len(q)]
         IN IF \E n \in 1..Len(r) : r[n] = x THEN r ELSE Append(r, x)

\* inboxes.into_iter().unique().filter(|i| !config.is_local_url(i)).collect()
remote_inboxes(q) == SelectSeq(unique(q), LAMBDA u : ~is_local_url(u))

\* The submitter whose task runs send_activity.
Caller == 1

DlReturn(r) == [dl EXCEPT !.pc = "returned", !.result = r]

\* The queue as new() leaves it and a send_activity call about to start,
\* its inbox list drawn from lists.
InitCall(lists) ==
    /\ worker_count \in 1..MaxWorkers
    /\ strategy = ShortStrategy
    /\ senders = [i \in 0..(worker_count - 1) |-> <<>>]
    /\ senders_dropped = FALSE
    /\ last_sender_idx = 0
    /\ stats = [pending |-> 0, running |-> 0, dead_last_hour |-> 0,
                completed_last_hour |-> 0]
    /\ sub = [s \in 1..NumSubmitters |-> SubIdle]
    /\ wk = [i \in 0..(worker_count - 1) |-> WkInit]
    /\ reset = [pc |-> "sleep", abort |-> FALSE, fired |-> 0]
    /\ sd = [pc |-> "none", i |-> 0, result |-> "none", stats |-> stats]
    /\ peer = [received |-> 0, only_5xx |-> TRUE]
    /\ hist = [t \in TaskIds |-> HistInit]
    /\ \E a \in Activities, k \in Keys, q \in lists :
         dl = [pc |-> "start", activity |-> a, key |-> k, inboxes |-> q,
               todo |-> <<>>, submitted |-> <<>>, logs |-> <<>>,
               result |-> "none"]

\* Variant: the key is looked at by the workers only, not before the loop.
DeliverStart_KeyUnchecked ==
    /\ dl.pc = "start"
    /\ dl' = IF dl.activity = "ser_err" THEN DlReturn("Err_serialize")
             ELSE [dl EXCEPT !.pc = "loop", !.todo = remote_inboxes(dl.inboxes)]
    /\ UNCHANGED <<worker_count, strategy, senders, senders_dropped,
                   last_sender_idx, stats, sub, wk, reset, sd, peer, hist>>

\* serde_json::to_vec(&activity)?; private_key_pem().ok_or_else(..)?;
\* PKey::private_key_from_pem(..)?; the inboxes made unique and remote
DeliverStart ==
    /\ dl.pc = "start"
    /\ dl' = IF dl.activity = "ser_err" THEN DlReturn("Err_serialize")
             ELSE IF dl.key = "none" THEN DlReturn("Err_no_private_key")
             ELSE IF dl.key = "bad_pem" THEN DlReturn("Err_invalid_pem")
             ELSE [dl EXCEPT !.pc = "loop", !.todo = remote_inboxes(dl.inboxes)]
    /\ UNCHANGED <<worker_count, strategy, senders, senders_dropped,
                   last_sender_idx, stats, sub, wk, reset, sd, peer, hist>>

\* for inbox in inboxes { if verify_url_valid(&inbox).await.is_err() { continue; }
\* let message = SendActivityTask { .. }; ..} Ok(())
DeliverNextInbox ==
    /\ dl.pc = "loop"
    /\ dl' = IF dl.todo = <<>> THEN DlReturn("Ok")
             ELSE IF ~verify_url_valid(Head(dl.todo))
                  THEN [dl EXCEPT !.todo = Tail(@)]
                  ELSE [dl EXCEPT !.pc = "queue"]
    /\ UNCHANGED <<worker_count, strategy, senders, senders_dropped,
                   last_sender_idx, stats, sub, wk, reset, sd, peer, hist>>

\* activity_queue.queue(message).await: the call
DeliverQueueCall ==
    /\ dl.pc = "queue"
    /\ QueueFetchAddIdx(Caller)
    /\ dl' = [dl EXCEPT !.pc = "in_queue"]

\* Variant: the Err of queue() is dropped and the loop goes on.
DeliverQueueReturn_ErrIgnored ==
    /\ dl.pc = "in_queue"
    /\ QueueSend(Caller)
    /\ dl' = IF hist'[sub[Caller].message.id].sent = -1
             THEN [dl EXCEPT !.pc = "loop", !.todo = Tail(@)]
             ELSE [dl EXCEPT !.pc = "stats", !.submitted = Append(@, Head(dl.todo))]

\* activity_queue.queue(message).await?: the return, an Err is propagated
DeliverQueueReturn ==
    /\ dl.pc = "in_queue"
    /\ QueueSend(Caller)
    /\ dl' = IF hist'[sub[Caller].message.id].sent = -1
             THEN DlReturn("Err_queue_closed")
             ELSE [dl EXCEPT !.pc = "stats", !.submitted = Append(@, Head(dl.todo))]

\* Variant: a task that ended dead makes send_activity fail.
DeliverLoadStats_FailOnDead ==
    /\ dl.pc = "stats"
    /\ dl' = IF stats.dead_last_hour > 0 THEN DlReturn("Err_delivery")
             ELSE [dl EXCEPT !.pc = "loop", !.todo = Tail(@),
                             !.logs = Append(@, IF stats.running = worker_count
                                                THEN "warn" ELSE "info")]
    /\ UNCHANGED <<worker_count, strategy, senders, senders_dropped,
                   last_sender_idx, stats, sub, wk, reset, sd, peer, hist>>

\* let running = stats.running.load(Relaxed); (the other three loads only
\* feed the text of the log line) if running == config.worker_count { warn!
\* } else { info! }
DeliverLoadStats ==
    /\ dl.pc = "stats"
    /\ dl' = [dl EXCEPT !.pc = "loop", !.todo = Tail(@),
                        !.logs = Append(@, IF stats.running = worker_count
                                           THEN "warn" ELSE "info")]
    /\ UNCHANGED <<worker_count, strategy, senders, senders_dropped,
                   last_sender_idx, stats, sub, wk, reset, sd, peer, hist>>

\* The call with workers that have not been scheduled yet: what is
\* submitted, for every kind of inbox.
InitFilter == InitCall(InboxLists(Urls))

NextFilter ==
    \/ DeliverStart
    \/ DeliverNextInbox
    \/ DeliverQueueCall
    \/ dl.pc = "in_queue" /\ QueueFetchAddPending(Caller) /\ UNCHANGED dl
    \/ DeliverQueueReturn
    \/ DeliverLoadStats

SpecFilter == InitFilter /\ [][NextFilter]_vars

\* The call with the workers running, for lists of distinct remote inboxes
\* (up to renaming: A, then B, then C).
InitDeliver ==
    InitCall({q \in InboxLists(RemoteUrls) :
                \A n \in 1..Len(q) : n <= 3 /\ q[n] = <<"A", "B", "C">>[n]})

NextDeliver ==
    \/ DeliverStart
    \/ DeliverNextInbox
    \/ DeliverQueueCall
    \/ dl.pc = "in_queue" /\ QueueFetchAddPending(Caller) /\ UNCHANGED dl
    \/ DeliverQueueReturn
    \/ DeliverLoadStats
    \/ \E i \in Workers : WorkerRecv(i) /\ UNCHANGED dl
    \/ \E i \in Workers : WorkerFetchSubPending(i) /\ UNCHANGED dl
    \/ \E i \in Workers : WorkerFetchAddRunning(i) /\ UNCHANGED dl
    \/ \E i \in Workers : RetryAction(i) /\ UNCHANGED dl
    \/ \E i \in Workers : WorkerPanic(i) /\ UNCHANGED dl
    \/ \E i \in Workers : RetrySleep(i) /\ UNCHANGED dl
    \/ \E i \in Workers : WorkerFetchSubRunning(i) /\ UNCHANGED dl
    \/ \E i \in Workers : WorkerMatchOutcome(i) /\ UNCHANGED dl

SpecDeliver == InitDeliver /\ [][NextDeliver]_vars

\* -------------------------------------------- tests: the queue and its peer
\* test_activity_queue_workers: one task queues the messages in a loop and
\* calls shutdown; the peer is dodgy_handler, which keeps a request counter.
\* The run is shorter than the hour of the reset task.

\* RetryStrategy { backoff: 1, retries: 3 } of the test.
TestStrategy == [backoff |-> 1, retries |-> 3]
\* The test's peer and strategy, and the same at a smaller scale (every 2nd
\* request answered 500, one retry).
DodgyConfigs == {[period |-> DODGY_PERIOD, strategy |-> TestStrategy],
                 [period |-> 2, strategy |-> [backoff |-> 1, retries |-> 1]]}

\* dodgy_handler: if state.fetch_add(1) % 20 == 0 { Err(500) } else { Ok(()) },
\* n the value of the counter before the request
dodgy_handler(n) == IF n % peer.period = 0 THEN "5xx" ELSE "2xx"

InitDodgy ==
    /\ worker_count \in 1..MaxWorkers
    /\ senders = [i \in 0..(worker_count - 1) |-> <<>>]
    /\ senders_dropped = FALSE
    /\ last_sender_idx = 0
    /\ stats = [pending |-> 0, running |-> 0, dead_last_hour |-> 0,
                completed_last_hour |-> 0]
    /\ sub = [s \in 1..NumSubmitters |-> SubIdle]
    /\ wk = [i \in 0..(worker_count - 1) |-> WkInit]
    /\ reset = [pc |-> "sleep", abort |-> FALSE, fired |-> 0]
    /\ sd = [pc |-> "none", i |-> 0, result |-> "none", stats |-> stats]
    /\ hist = [t \in TaskIds |-> HistInit]
    /\ dl = DlNone
    /\ \E c \in DodgyConfigs :
         /\ strategy = c.strategy
         /\ peer = [received |-> 0, only_5xx |-> TRUE, period |-> c.period]

\* RetryAction with the response dodgy_handler gives to this request.
RetryActionDodgy(i) ==
    /\ RetryAction(i)
    /\ wk'[i].log = Append(wk[i].log, dodgy_handler(peer.received))

NextDodgy ==
    \/ QueueFetchAddIdx(Caller) /\ UNCHANGED dl
    \/ QueueFetchAddPending(Caller) /\ UNCHANGED dl
    \/ QueueSend(Caller) /\ UNCHANGED dl
    \/ \E i \in Workers : WorkerRecv(i) /\ UNCHANGED dl
    \/ \E i \in Workers : WorkerExit(i) /\ UNCHANGED dl
    \/ \E i \in Workers : WorkerFetchSubPending(i) /\ UNCHANGED dl
    \/ \E i \in Workers : WorkerFetchAddRunning(i) /\ UNCHANGED dl
    \/ \E i \in Workers : RetryActionDodgy(i) /\ UNCHANGED dl
    \/ \E i \in Workers : RetrySleep(i) /\ UNCHANGED dl
    \/ \E i \in Workers : WorkerFetchSubRunning(i) /\ UNCHANGED dl
    \/ \E i \in Workers : WorkerMatchOutcome(i) /\ UNCHANGED dl
    \/ ShutdownDropSenders /\ UNCHANGED dl
    \/ ShutdownAbortReset /\ UNCHANGED dl
    \/ ShutdownJoinReset /\ UNCHANGED dl
    \/ ShutdownJoinWorker /\ UNCHANGED dl
    \/ ShutdownUnwrapStats /\ UNCHANGED dl

SpecDodgy == InitDodgy /\ [][NextDodgy]_vars

\* ------------------------------------------------------------------ claims

\* The tasks a channel accepted (queue() returned Ok).
Accepted == {t \in TaskIds : hist[t].sent > 0}
\* The tasks whose outcome has been recorded.
Terminal == {t \in TaskIds : hist[t].fate # "none"}
\* retry has returned in worker i and its outcome is not yet recorded.
Returned(i) == wk[i].pc \in {"done", "outcome"}
Last(q) == q[Len(q)]

\* C1: when shutdown returns the Stats and no hourly reset has fired,
\* completed_last_hour + dead_last_hour is the number of tasks submitted, and
\* pending and running are 0.
C1_ShutdownStatsCountEveryTask ==
    (sd.result = "stats" /\ reset.fired = 0) =>
        /\ sd.stats.completed_last_hour + sd.stats.dead_last_hour
             = Cardinality(Accepted)
        /\ sd.stats.pending = 0
        /\ sd.stats.running = 0

C1_Witness ==
    /\ sd.result = "stats"
    /\ reset.fired = 0
    /\ Cardinality(Accepted) = MaxTasks
    /\ sd.stats.completed_last_hour >= 1
    /\ sd.stats.dead_last_hour >= 1

\* C2: in every reachable state running <= worker_count, and neither pending
\* nor running has been decremented at 0 (an underflow would show as a
\* negative value).
C2_CountersInRange ==
    /\ stats.running <= worker_count
    /\ stats.running >= 0
    /\ stats.pending >= 0

C2_Witness ==
    /\ worker_count = MaxWorkers
    /\ stats.running = worker_count
    /\ stats.pending = 0
    /\ last_sender_idx = MaxTasks

\* No submit call and no worker is between two of its counter updates.
Quiescent ==
    /\ \A s \in DOMAIN sub : sub[s].pc # "pending"
    /\ \A i \in Workers : wk[i].pc \notin {"running", "outcome"}

\* C3: pending + running <= (submits started) - (outcomes recorded), with
\* equality whenever no submit call and no worker is between two counter
\* updates.
C3_PendingRunningAccounting ==
    /\ stats.pending + stats.running <= last_sender_idx - Cardinality(Terminal)
    /\ Quiescent =>
         stats.pending + stats.running = last_sender_idx - Cardinality(Terminal)

C3_Witness ==
    /\ Quiescent
    /\ stats.pending >= 1
    /\ stats.running >= 1
    /\ \E s \in DOMAIN sub : sub[s].pc = "send"
    /\ \E i \in Workers : wk[i].pc = "sleep"

\* C4: an action that fails on every attempt is invoked retries + 1 times, the
\* sleep before the n-th retry is backoff^n seconds, no sleep follows the last
\* attempt and retry returns the last error (60, 3600, 216000 s with the
\* defaults); an attempt that succeeded is never followed by another one.
C4_RetrySchedule ==
    \A i \in Workers :
        /\ \A n \in 1..Len(wk[i].slept) : wk[i].slept[n] = strategy.backoff ^ n
        /\ \A n \in 1..(Len(wk[i].log) - 1) : ~send(wk[i].log[n]).ok
        /\ wk[i].pc = "sleep" => Len(wk[i].slept) = Len(wk[i].log)
        /\ Returned(i) =>
             /\ Len(wk[i].slept) = Len(wk[i].log) - 1
             /\ wk[i].outcome = send(Last(wk[i].log))
             /\ ~wk[i].outcome.ok =>
                  /\ Len(wk[i].log) = strategy.retries + 1
                  /\ strategy = DefaultStrategy =>
                       wk[i].slept = <<60, 3600, 216000>>

C4_Witness ==
    \E i \in Workers :
        /\ Returned(i)
        /\ strategy = DefaultStrategy
        /\ ~wk[i].outcome.ok
        /\ wk[i].log = <<"5xx", "4xx_text_err", "5xx", "4xx_text_err">>
        /\ wk[i].outcome.err = "4xx_text_err"
        /\ wk[i].slept = <<60, 3600, 216000>>

\* C5: a task whose first attempt receives a 4xx response is never retried:
\* one request is sent and retry returns Ok (the task counts as completed).
C5_First4xxNeverRetried ==
    \A i \in Workers :
        (Len(wk[i].log) >= 1 /\ wk[i].log[1] \in {"4xx", "4xx_text_err"}) =>
            /\ Len(wk[i].log) = 1
            /\ wk[i].pc # "sleep"
            /\ Returned(i) => wk[i].outcome.ok

\* C6: an attempt that ends in a transport error is never followed by another
\* attempt, and retry returns Ok (the task counts as completed, not as dead).
C6_TransportErrorNeverRetried ==
    \A i \in Workers :
        \A n \in 1..Len(wk[i].log) :
            wk[i].log[n] = "io_err" =>
                /\ n = Len(wk[i].log)
                /\ wk[i].pc # "sleep"
                /\ Returned(i) => wk[i].outcome.ok

\* The step of worker i that records the outcome of its task.
RecordsOutcome(i) == wk[i].pc = "outcome" /\ wk'[i].pc = "recv"

\* One or more 5xx, then a 2xx.
Is5xxThen2xx(log) ==
    /\ Len(log) >= 2
    /\ Last(log) = "2xx"
    /\ \A n \in 1..(Len(log) - 1) : log[n] = "5xx"

\* A task whose outcome is recorded is in no channel and in no worker's hands.
TerminalTasksGone ==
    \A t \in Terminal :
        /\ \A i \in Workers : wk[i].message.id # t
        /\ \A i \in Workers : \A n \in 1..Len(senders[i]) : senders[i][n].id # t

\* C7: a task answered 5xx one or more times and then 2xx is not attempted
\* after the 2xx, and the step recording it increments completed_last_hour by
\* one and leaves dead_last_hour alone; once recorded, the task is gone.
C7_RetriedThenDeliveredCompletesOnce ==
    /\ [](\A i \in Workers : \A n \in 1..Len(wk[i].log) :
            wk[i].log[n] = "2xx" => (n = Len(wk[i].log) /\ Returned(i)))
    /\ [][\A i \in Workers :
            (RecordsOutcome(i) /\ Is5xxThen2xx(wk[i].log)) =>
                /\ stats'.completed_last_hour = stats.completed_last_hour + 1
                /\ stats'.dead_last_hour = stats.dead_last_hour
                /\ hist[wk[i].message.id].fate = "none"
                /\ hist'[wk[i].message.id].fate = "completed"]_vars
    /\ []TerminalTasksGone

C7_Witness ==
    \E i \in Workers :
        /\ wk[i].pc = "outcome"
        /\ strategy = DefaultStrategy
        /\ wk[i].log = <<"5xx", "5xx", "5xx", "2xx">>
        /\ wk[i].outcome.ok

Only5xx(log) == \A n \in 1..Len(log) : log[n] = "5xx"

\* C8: a task whose every attempt is answered 5xx is attempted retries + 1
\* times, then increments dead_last_hour by one and completed_last_hour not at
\* all; when every request of the run was answered 5xx, the peer received
\* n * (retries + 1) requests and shutdown returns dead_last_hour = n.
C8_AlwaysFailingTaskIsDead ==
    /\ [](\A i \in Workers :
            Only5xx(wk[i].log) =>
                /\ Len(wk[i].log) <= strategy.retries + 1
                /\ Returned(i) => /\ Len(wk[i].log) = strategy.retries + 1
                                  /\ ~wk[i].outcome.ok)
    /\ [][\A i \in Workers :
            (RecordsOutcome(i) /\ Only5xx(wk[i].log)) =>
                /\ stats'.dead_last_hour = stats.dead_last_hour + 1
                /\ stats'.completed_last_hour = stats.completed_last_hour
                /\ hist[wk[i].message.id].fate = "none"
                /\ hist'[wk[i].message.id].fate = "dead"]_vars
    /\ []((sd.result = "stats" /\ reset.fired = 0 /\ peer.only_5xx) =>
            /\ peer.received = Cardinality(Accepted) * (strategy.retries + 1)
            /\ sd.stats.dead_last_hour = Cardinality(Accepted)
            /\ sd.stats.completed_last_hour = 0)

C8_Witness ==
    /\ sd.result = "stats"
    /\ reset.fired = 0
    /\ peer.only_5xx
    /\ strategy = DefaultStrategy
    /\ Cardinality(Accepted) = MaxTasks
    /\ sd.stats.dead_last_hour = MaxTasks
    /\ peer.received = MaxTasks * 4

\* C9: the i-th submit, in the order of the cursor's fetch_add, targets and is
\* placed on channel i mod worker_count, whatever the channels hold; any
\* worker_count consecutive submits place one task on each channel.
C9_RoundRobin ==
    /\ \A t \in TaskIds : hist[t].placed # -1 => hist[t].placed = t % worker_count
    /\ \A s \in DOMAIN sub :
         sub[s].pc # "idle" => sub[s].idx = sub[s].message.id % worker_count
    /\ \A t \in TaskIds :
         LET run == t..(t + worker_count - 1)
         IN (\A u \in run : u \in Accepted) =>
                /\ {hist[u].placed : u \in run} = Workers
                /\ \A u, v \in run : hist[u].placed = hist[v].placed => u = v

C9_Witness ==
    /\ worker_count = MaxWorkers
    /\ Accepted = TaskIds
    /\ \A i \in Workers : Len(senders[i]) >= 1

\* Worker i makes an attempt for task t in this step.
Attempts(i, t) ==
    /\ wk[i].pc = "action"
    /\ wk[i].message.id = t
    /\ wk'[i] # wk[i]

\* C10: if A was put on a channel before B was put on the same channel, no
\* attempt of A happens once B has been attempted.
C10_ChannelFifo ==
    [][\A a, b \in TaskIds :
         (/\ hist[a].placed # -1
          /\ hist[a].placed = hist[b].placed
          /\ hist[a].sent < hist[b].sent
          /\ hist[b].attempted)
         => \A i \in Workers : ~Attempts(i, a)]_vars

C10_Witness ==
    \E a, b \in TaskIds :
        /\ hist[a].placed # -1
        /\ hist[a].placed = hist[b].placed
        /\ hist[a].sent < hist[b].sent
        /\ b < a
        /\ hist[a].fate = "dead"
        /\ hist[b].attempted

\* Task t is in a channel or in a worker's hands.
InQueue(t) ==
    \E i \in Workers :
        \/ wk[i].message.id = t
        \/ \E n \in 1..Len(senders[i]) : senders[i][n].id = t

NoWorkerPanicked == \A i \in Workers : wk[i].pc # "panicked"

C15_StatsUniquelyOwnedAtUnwrap ==
    /\ sd.result # "stats_shared"
    /\ (sd.pc = "join" /\ sd.i = worker_count) => stats_holders = {}
    /\ (sd.pc = "returned" /\ NoWorkerPanicked) => sd.result = "stats"
    /\ sd.result = "stats" =>
         /\ stats_holders = {}
         /\ reset.pc = "cancelled"
         /\ sd.stats = stats

C15_Witness ==
    /\ sd.result = "stats"
    /\ reset.fired >= 1
    /\ worker_count = MaxWorkers
    /\ Accepted = TaskIds

\* The two stores of the reset task.
IsResetStoreCompleted == reset.pc = "sleep" /\ reset'.pc = "store_dead"
IsResetStoreDead == reset.pc = "store_dead" /\ reset'.pc = "sleep"

\* C16: a step that lowers completed_last_hour or dead_last_hour is a store
\* of the reset task and leaves that counter at 0; each store of the reset
\* task leaves its counter at 0; no step of queue() or of a worker lowers
\* either counter.
C16_CountersOnlyLoweredByReset ==
    [][/\ stats'.completed_last_hour < stats.completed_last_hour =>
            IsResetStoreCompleted
       /\ stats'.dead_last_hour < stats.dead_last_hour => IsResetStoreDead
       /\ IsResetStoreCompleted => stats'.completed_last_hour = 0
       /\ IsResetStoreDead => stats'.dead_last_hour = 0
       /\ (sub' # sub \/ wk' # wk) =>
            /\ stats'.completed_last_hour >= stats.completed_last_hour
            /\ stats'.dead_last_hour >= stats.dead_last_hour]_vars

C16_Witness ==
    /\ reset.fired >= 1
    /\ reset.pc = "sleep"
    /\ hist[0].fate = "completed"
    /\ hist[1].fate = "dead"
    /\ stats.completed_last_hour = 0
    /\ stats.dead_last_hour = 0

\* C17: there is no state in which the reset task has zeroed one counter for
\* the new window while the other still holds the count of the previous one.
C17_ResetIsAtomic ==
    ~(reset.pc = "store_dead" /\ stats.dead_last_hour > 0)

IsFirstOccurrence(q, n) == \A m \in 1..(n - 1) : q[m] # q[n]

RECURSIVE ExpectedSubmits(_, _)
\* Of the first n inboxes of q, in their order: those that are remote, valid
\* and were not seen before.
ExpectedSubmits(q, n) ==
    IF n = 0 THEN <<>>
    ELSE IF /\ IsFirstOccurrence(q, n)
            /\ ~is_local_url(q[n])
            /\ verify_url_valid(q[n])
         THEN Append(ExpectedSubmits(q, n - 1), q[n])
         ELSE ExpectedSubmits(q, n - 1)

IsPrefix(a, b) == Len(a) <= Len(b) /\ \A n \in 1..Len(a) : a[n] = b[n]

\* C11: the inboxes submitted so far are a prefix of the distinct, remote,
\* valid inboxes of the input in the order of their first occurrence, one
\* accepted task each; when send_activity returns Ok it has submitted all of
\* them, and with a valid key it returns Ok unless a submit found its
\* channel closed (duplicate, local and invalid inboxes are no error).
C11_OneTaskPerDistinctRemoteInbox ==
    LET expected == ExpectedSubmits(dl.inboxes, Len(dl.inboxes))
    IN /\ IsPrefix(dl.submitted, expected)
       /\ Cardinality(Accepted) = Len(dl.submitted)
       /\ last_sender_idx \in {Len(dl.submitted), Len(dl.submitted) + 1}
       /\ dl.result = "Ok" => dl.submitted = expected
       /\ (dl.pc = "returned" /\ dl.activity = "ok" /\ dl.key = "valid") =>
            \/ dl.result = "Ok"
            \/ dl.result = "Err_queue_closed" /\ \E t \in TaskIds : hist[t].sent = -1

C11_Witness ==
    /\ dl.result = "Ok"
    /\ dl.inboxes = <<"B", "LOCAL", "B", "INVALID", "A">>
    /\ dl.submitted = <<"B", "A">>
    /\ Len(senders[0]) >= 1

IsKeyError(r) == r \in {"Err_no_private_key", "Err_invalid_pem"}

\* C12: with no private key or a PEM that does not parse, send_activity
\* returns an error, and it does so before any inbox is processed: nothing
\* was submitted, the Stats counters and the cursor are as before the call.
C12_KeyErrorBeforeAnySubmit ==
    /\ (dl.pc = "returned" /\ dl.activity = "ok" /\ dl.key # "valid") =>
         dl.result = (IF dl.key = "none" THEN "Err_no_private_key"
                                         ELSE "Err_invalid_pem")
    /\ IsKeyError(dl.result) => dl.key # "valid"
    /\ dl.key # "valid" =>
         /\ dl.pc \in {"start", "returned"}
         /\ dl.submitted = <<>>
         /\ last_sender_idx = 0
         /\ stats = [pending |-> 0, running |-> 0, dead_last_hour |-> 0,
                     completed_last_hour |-> 0]
         /\ \A i \in Workers : senders[i] = <<>> /\ wk[i] = WkInit
         /\ \A s \in DOMAIN sub : sub[s] = SubIdle

C12_Witness ==
    /\ dl.result = "Err_invalid_pem"
    /\ dl.inboxes = <<"A", "B", "C">>
    /\ worker_count = MaxWorkers

\* What send_activity returns, from its inputs and from whether a submit
\* found its channel closed; no response of a peer enters.
ResultWithoutResponses ==
    IF dl.activity = "ser_err" THEN "Err_serialize"
    ELSE IF dl.key = "none" THEN "Err_no_private_key"
    ELSE IF dl.key = "bad_pem" THEN "Err_invalid_pem"
    ELSE IF \E t \in TaskIds : hist[t].sent = -1 THEN "Err_queue_closed"
    ELSE "Ok"

\* C13: what send_activity returns is determined by its inputs and by the
\* acceptance of its submits, whatever the peers answered and whatever became
\* of the tasks: Ok whenever the key is valid and every submit was accepted.
C13_ResultIndependentOfResponses ==
    dl.pc = "returned" => dl.result = ResultWithoutResponses

C13_Witness ==
    /\ dl.result = "Ok"
    /\ hist[0].fate = "dead"
    /\ hist[1].fate = "completed"
    /\ peer.received = 3

\* C19: while every worker is alive no submit has failed, whatever pending
\* and running were, every accepted submit is followed by one log line, and
\* a call of queue() can always take its next step.
C19_SubmitNeverFailsUnderLoad ==
    /\ (\A i \in Workers : ~receiver_dropped(i)) =>
           /\ \A t \in TaskIds : hist[t].sent # -1
           /\ dl.result # "Err_queue_closed"
    /\ Len(dl.submitted) =
           Len(dl.logs) + (IF dl.pc = "stats" THEN 1 ELSE 0)
    /\ dl.pc = "in_queue" =>
           ENABLED (QueueFetchAddPending(Caller) \/ DeliverQueueReturn)

C19_Witness ==
    /\ worker_count = 1
    /\ dl.result = "Ok"
    /\ dl.logs = <<"warn", "warn">>
    /\ hist[0].fate = "none"
    /\ wk[0].message.id = 0
    /\ stats.running = 1
    /\ hist[1].sent > 0

\* C20: a submit whose channel is closed returns the error, its task is on
\* no channel and in no worker's hands, send_activity returns that error at
\* once, and no later inbox gets a submit (the cursor stays where the failed
\* submit left it).
C20_ClosedChannelStopsDeliver ==
    /\ \A t \in TaskIds :
         hist[t].sent = -1 =>
           /\ receiver_dropped(t % worker_count)
           /\ hist[t].placed = -1 /\ ~hist[t].attempted /\ hist[t].fate = "none"
           /\ \A i \in Workers :
                /\ wk[i].message.id # t
                /\ \A n \in 1..Len(senders[i]) : senders[i][n].id # t
           /\ dl.pc = "returned"
           /\ dl.result = "Err_queue_closed"
           /\ last_sender_idx = t + 1
           /\ Len(dl.submitted) = t
           /\ Len(dl.todo) = Len(remote_inboxes(dl.inboxes)) - t
    /\ dl.result = "Err_queue_closed" => \E t \in TaskIds : hist[t].sent = -1

C20_Witness ==
    /\ dl.result = "Err_queue_closed"
    /\ dl.inboxes = <<"A", "B", "C">>
    /\ dl.submitted = <<"A">>
    /\ dl.todo = <<"B", "C">>
    /\ hist[1].sent = -1

\* ------------------------------------------- claims: signing, panics, pending

\* C21: the request of a task is signed once: no worker has signed the
\* request of the task in its hands more than once, however many attempts it
\* has made.
C21_SignedOnce ==
    \A i \in Workers : wk[i].signed <= 1

\* C24: when shutdown has returned and a worker has panicked, it returned the
\* join error and not the Stats, the senders are dropped and the reset task
\* is cancelled; it returns the join error only for a panicked worker.
C24_PanickedWorkerFailsShutdown ==
    /\ (sd.pc = "returned" /\ ~NoWorkerPanicked) =>
         /\ sd.result = "join_error"
         /\ senders_dropped
         /\ reset.pc = "cancelled"
    /\ sd.result = "join_error" => wk[sd.i].pc = "panicked"

C24_Witness ==
    /\ sd.result = "join_error"
    /\ worker_count = MaxWorkers
    /\ wk[0].pc = "exited"
    /\ wk[1].pc = "panicked"
    /\ hist[0].fate # "none"

\* The tasks waiting in a channel.
QueuedTasks ==
    {t \in TaskIds : \E i \in Workers : \E n \in 1..Len(senders[i]) :
                        senders[i][n].id = t}

Unpicked ==
    {t \in Accepted :
        /\ ~hist[t].attempted
        /\ hist[t].fate = "none"
        /\ \A i \in Workers : wk[i].message.id = t => wk[i].pc = "pending"}

\* C26: pending counts the accepted tasks not yet picked up and the submits
\* that are about to send, and nothing else: a failed submit leaves no
\* increment behind.
C26_FailedSubmitLeavesPending ==
    stats.pending = Cardinality(Unpicked)
                    + Cardinality({s \in DOMAIN sub : sub[s].pc = "send"})

\* Without a failed submit pending is exactly that count.
PendingExactWithoutFailedSubmit ==
    (\A t \in TaskIds : hist[t].sent # -1) => C26_FailedSubmitLeavesPending

\* ------------------------------------- core/activity_queue.rs: send_activity
\* The earlier send_activity on top of a background_jobs Manager, with the
\* debug mode of the configuration. dl is the frame of one call; the Manager
\* is a library: of its queue() and get_stats() only Ok or Err is modelled,
\* dl.queued holds the jobs it accepted.

\* What one do_send can meet: sign_request fails before anything is sent, or
\* the request gets one of the responses.
CoreResponses == Responses \cup {"sign_err"}

\* do_send: sign_request(..).await?; client.execute(request).await; match
\* response (the body of a 4xx is not read)
core_do_send(resp) ==
    CASE resp = "sign_err" -> Err(resp)
      [] resp = "2xx" -> Ok
      [] resp = "4xx" -> Ok
      [] resp = "4xx_text_err" -> Ok
      [] resp = "5xx" -> Err(resp)
      [] resp = "io_err" -> Ok

\* create_activity_queue: let worker_count = if debug { 0 } else { worker_count };
core_worker_count(debug, n) == IF debug THEN 0 ELSE n

\* The inbox lists of the calls: two remote inboxes, one that
\* verify_url_valid rejects, and the local one at the front or not at all.
CoreLists ==
    {q \in InboxLists(Urls) :
        \A n \in 1..Len(q) : /\ q[n] # "C"
                             /\ q[n] = "LOCAL" => n = 1}

InitDebug ==
    /\ \E debug \in BOOLEAN, n \in 1..MaxWorkers, a \in Activities, q \in CoreLists :
         /\ worker_count = core_worker_count(debug, n)
         /\ dl = [pc |-> "start", debug |-> debug, activity |-> a,
                  inboxes |-> q, todo |-> <<>>, sent |-> <<>>, queued |-> <<>>,
                  logs |-> <<>>, result |-> "none"]
    /\ strategy = DefaultStrategy
    /\ senders = [i \in 0..(worker_count - 1) |-> <<>>]
    /\ senders_dropped = FALSE
    /\ last_sender_idx = 0
    /\ stats = [pending |-> 0, running |-> 0, dead_last_hour |-> 0,
                completed_last_hour |-> 0]
    /\ sub = [s \in 1..NumSubmitters |-> SubIdle]
    /\ wk = [i \in 0..(worker_count - 1) |-> WkInit]
    /\ reset = [pc |-> "sleep", abort |-> FALSE, fired |-> 0]
    /\ sd = [pc |-> "none", i |-> 0, result |-> "none", stats |-> stats]
    /\ peer = [received |-> 0, only_5xx |-> TRUE]
    /\ hist = [t \in TaskIds |-> HistInit]

\* What a step of the call leaves alone.
CoreFrame ==
    UNCHANGED <<worker_count, strategy, senders, senders_dropped,
                last_sender_idx, stats, sub, wk, reset, sd, hist>>

\* serde_json::to_string_pretty(&activity)?; the inboxes made unique and remote
CoreStart ==
    /\ dl.pc = "start"
    /\ dl' = IF dl.activity = "ser_err" THEN DlReturn("Err_serialize")
             ELSE [dl EXCEPT !.pc = "loop", !.todo = remote_inboxes(dl.inboxes)]
    /\ UNCHANGED peer
    /\ CoreFrame

\* for inbox in inboxes { if verify_url_valid(&inbox).await.is_err() { continue; }
\* let message = SendActivityTask { .. }; if config.debug { .. } else { .. } } Ok(())
CoreNextInbox ==
    /\ dl.pc = "loop"
    /\ dl' = IF dl.todo = <<>> THEN DlReturn("Ok")
             ELSE IF ~verify_url_valid(Head(dl.todo))
                  THEN [dl EXCEPT !.todo = Tail(@)]
                  ELSE [dl EXCEPT !.pc = IF dl.debug THEN "do_send" ELSE "queue"]
    /\ UNCHANGED peer
    /\ CoreFrame

\* Variant: the error of do_send is returned to the caller (do_send(..).await?).
CoreDoSend_ErrPropagated ==
    /\ dl.pc = "do_send"
    /\ \E resp \in CoreResponses :
         LET res == core_do_send(resp)
         IN /\ peer' = IF resp = "sign_err" THEN peer ELSE peer_receives(resp)
            /\ dl' = IF res.ok
                     THEN [dl EXCEPT !.pc = "loop", !.todo = Tail(@),
                              !.sent = Append(@, [inbox |-> Head(dl.todo),
                                                  resp |-> resp])]
                     ELSE [dl EXCEPT !.pc = "returned", !.result = "Err_delivery",
                              !.sent = Append(@, [inbox |-> Head(dl.todo),
                                                  resp |-> resp])]
    /\ CoreFrame

\* let res = do_send(message, &config.client, config.request_timeout).await;
\* if let Err(e) = res { warn!("{}", e); }
CoreDoSend ==
    /\ dl.pc = "do_send"
    /\ \E resp \in CoreResponses :
         LET res == core_do_send(resp)
         IN /\ peer' = IF resp = "sign_err" THEN peer ELSE peer_receives(resp)
            /\ dl' = [dl EXCEPT !.pc = "loop", !.todo = Tail(@),
                         !.sent = Append(@, [inbox |-> Head(dl.todo),
                                             resp |-> resp]),
                         !.logs = IF res.ok THEN @ ELSE Append(@, "warn")]
    /\ CoreFrame

\* do_send: generate_request_headers' expect on an inbox without a domain
\* panics in the caller's task
CoreDoSendPanic ==
    /\ dl.pc = "do_send"
    /\ dl' = [dl EXCEPT !.pc = "panicked"]
    /\ UNCHANGED peer
    /\ CoreFrame

\* activity_queue.queue(message).await?;
CoreQueue ==
    /\ dl.pc = "queue"
    /\ \E ok \in BOOLEAN :
         dl' = IF ok THEN [dl EXCEPT !.pc = "stats",
                                     !.queued = Append(@, Head(dl.todo))]
               ELSE DlReturn("Err_queue")
    /\ UNCHANGED peer
    /\ CoreFrame

\* let stats = activity_queue.get_stats().await?; info!(..);
\* if stats.running as u64 == config.worker_count { warn!(..) }
CoreGetStats ==
    /\ dl.pc = "stats"
    /\ \E ok \in BOOLEAN, running \in 0..worker_count :
         dl' = IF ok THEN [dl EXCEPT !.pc = "loop", !.todo = Tail(@),
                              !.logs = Append(@, IF running = worker_count
                                                 THEN "warn" ELSE "info")]
               ELSE DlReturn("Err_stats")
    /\ UNCHANGED peer
    /\ CoreFrame

NextDebug ==
    \/ CoreStart
    \/ CoreNextInbox
    \/ CoreDoSend
    \/ CoreDoSendPanic
    \/ CoreQueue
    \/ CoreGetStats

SpecDebug == InitDebug /\ [][NextDebug]_vars

\* --------------------------------------------- axum/inbox.rs: receive_activity
\* One call of receive_activity. dl is its frame: input says for each callee
\* whether it succeeds on this request, trace lists the callees invoked.

InboxChecks ==
    {"verify_inbox_hash", "from_slice", "verify_url_and_domain", "dereference",
     "verify_signature"}

InitInbox ==
    /\ \E input \in [InboxChecks \cup {"receive"} -> {"ok", "err"}] :
         dl = [pc |-> "verify_inbox_hash", input |-> input, trace |-> <<>>,
               result |-> "none"]
    /\ worker_count = 1
    /\ strategy = DefaultStrategy
    /\ senders = [i \in {0} |-> <<>>]
    /\ senders_dropped = FALSE
    /\ last_sender_idx = 0
    /\ stats = [pending |-> 0, running |-> 0, dead_last_hour |-> 0,
                completed_last_hour |-> 0]
    /\ sub = [s \in 1..NumSubmitters |-> SubIdle]
    /\ wk = [i \in {0} |-> WkInit]
    /\ reset = [pc |-> "sleep", abort |-> FALSE, fired |-> 0]
    /\ sd = [pc |-> "none", i |-> 0, result |-> "none", stats |-> stats]
    /\ peer = [received |-> 0, only_5xx |-> TRUE]
    /\ hist = [t \in TaskIds |-> HistInit]

\* callee(..)?: the callee is invoked; its error is returned, else go on
InboxTry(callee, next) ==
    /\ dl.pc = callee
    /\ dl' = IF dl.input[callee] = "ok"
             THEN [dl EXCEPT !.pc = next, !.trace = Append(@, callee)]
             ELSE [dl EXCEPT !.pc = "returned", !.trace = Append(@, callee),
                             !.result = Err(callee)]
    /\ UNCHANGED <<worker_count, strategy, senders, senders_dropped,
                   last_sender_idx, stats, sub, wk, reset, sd, hist, peer>>

\* verify_inbox_hash(activity_data.headers.get("Digest"), &activity_data.body)?;
ReceiveVerifyInboxHash == InboxTry("verify_inbox_hash", "from_slice")

\* let activity: Activity = serde_json::from_slice(&activity_data.body)?;
ReceiveFromSlice == InboxTry("from_slice", "verify_url_and_domain")

\* data.config.verify_url_and_domain(&activity).await?;
ReceiveVerifyUrlAndDomain == InboxTry("verify_url_and_domain", "dereference")

\* let actor = ObjectId::<ActorT>::from(activity.actor().clone()).dereference(data).await?;
ReceiveDereference == InboxTry("dereference", "verify_signature")

\* Variant: a failed signature check is logged and the activity handled anyway.
ReceiveVerifySignature_ErrIgnored ==
    /\ dl.pc = "verify_signature"
    /\ dl' = [dl EXCEPT !.pc = "receive", !.trace = Append(@, "verify_signature")]
    /\ UNCHANGED <<worker_count, strategy, senders, senders_dropped,
                   last_sender_idx, stats, sub, wk, reset, sd, hist, peer>>

\* verify_signature(&headers, &method, &uri, actor.public_key())?;
ReceiveVerifySignature == InboxTry("verify_signature", "receive")

\* activity.receive(data).await?; Ok(())
ReceiveActivity ==
    /\ dl.pc = "receive"
    /\ dl' = [dl EXCEPT !.pc = "returned", !.trace = Append(@, "receive"),
                        !.result = IF dl.input["receive"] = "ok" THEN Ok
                                   ELSE Err("receive")]
    /\ UNCHANGED <<worker_count, strategy, senders, senders_dropped,
                   last_sender_idx, stats, sub, wk, reset, sd, hist, peer>>

NextInbox ==
    \/ ReceiveVerifyInboxHash
    \/ ReceiveFromSlice
    \/ ReceiveVerifyUrlAndDomain
    \/ ReceiveDereference
    \/ ReceiveVerifySignature
    \/ ReceiveActivity

SpecInbox == InitInbox /\ [][NextInbox]_vars

\* ------------------------------------------- the cursor at its full width
\* last_sender_idx is an AtomicUsize: 64 bits, here four limbs of 16 bits,
\* most significant first, so that the arithmetic at usize::MAX is exact.

LIMB == 65536
USIZE_MAX == <<LIMB - 1, LIMB - 1, LIMB - 1, LIMB - 1>>

\* AtomicUsize::fetch_add(1): the new value; the addition wraps around.
wrapping_add(d) ==
    IF d[4] < LIMB - 1 THEN [d EXCEPT ![4] = @ + 1]
    ELSE IF d[3] < LIMB - 1 THEN [d EXCEPT ![4] = 0, ![3] = @ + 1]
    ELSE IF d[2] < LIMB - 1 THEN [d EXCEPT ![4] = 0, ![3] = 0, ![2] = @ + 1]
    ELSE IF d[1] < LIMB - 1 THEN [d EXCEPT ![4] = 0, ![3] = 0, ![2] = 0,
                                           ![1] = @ + 1]
    ELSE <<0, 0, 0, 0>>

\* Variant: the cursor is reduced as a signed integer (cursor as isize % len):
\* a value with the top bit set is negative and so is its remainder.
usize_rem_signed(d, len) ==
    LET r1 == d[1] % len
        r2 == (r1 * LIMB + d[2]) % len
        r3 == (r2 * LIMB + d[3]) % len
        r4 == (r3 * LIMB + d[4]) % len
        m == ((((LIMB % len) * LIMB) % len * LIMB) % len * LIMB) % len
    IN IF d[1] >= LIMB \div 2 THEN 0 - ((m - r4) % len) ELSE r4

\* cursor % self.senders.len() on the unsigned 64-bit value
usize_rem(d, len) ==
    LET r1 == d[1] % len
        r2 == (r1 * LIMB + d[2]) % len
        r3 == (r2 * LIMB + d[3]) % len
    IN (r3 * LIMB + d[4]) % len

\* Cursor values before the run: at and next to the wrap, at a carry between
\* limbs, and the value after construction.
CursorStarts ==
    {USIZE_MAX,
     [USIZE_MAX EXCEPT ![4] = LIMB - 2],
     <<0, 0, LIMB - 1, LIMB - 1>>,
     <<0, 0, 0, 0>>}

\* The queue after it has handed out `cur` tickets and is idle again; `issued`
\* numbers the tasks of this run.
InitWrap ==
    /\ \E c \in Configs : worker_count = c.worker_count /\ strategy = c.strategy
    /\ senders = [i \in 0..(worker_count - 1) |-> <<>>]
    /\ senders_dropped = FALSE
    /\ \E c \in CursorStarts : last_sender_idx = [cur |-> c, issued |-> 0]
    /\ stats = [pending |-> 0, running |-> 0, dead_last_hour |-> 0,
                completed_last_hour |-> 0]
    /\ sub = [s \in 1..NumSubmitters |-> SubIdle]
    /\ wk = [i \in 0..(worker_count - 1) |-> WkInit]
    /\ reset = [pc |-> "sleep", abort |-> FALSE, fired |-> 0]
    /\ sd = [pc |-> "none", i |-> 0, result |-> "none", stats |-> stats]
    /\ peer = [received |-> 0, only_5xx |-> TRUE]
    /\ hist = [t \in TaskIds |-> HistInit]
    /\ dl = DlNone

\* let idx_to_send = self.last_sender_idx.fetch_add(1, Relaxed) % self.senders.len();
QueueFetchAddIdxWide(s) ==
    /\ sub[s].pc = "idle"
    /\ sd.pc = "none"
    /\ last_sender_idx.issued < MaxTasks
    /\ sub' = [sub EXCEPT ![s] =
                 [pc |-> "pending",
                  idx |-> usize_rem(last_sender_idx.cur, worker_count),
                  message |-> [id |-> last_sender_idx.issued]]]
    /\ last_sender_idx' = [cur |-> wrapping_add(last_sender_idx.cur),
                           issued |-> last_sender_idx.issued + 1]
    /\ UNCHANGED <<worker_count, strategy, senders, senders_dropped, stats, wk,
                   reset, sd, hist, peer>>

NextWrap ==
    \/ \E s \in DOMAIN sub : QueueFetchAddIdxWide(s) /\ UNCHANGED dl
    \/ \E s \in DOMAIN sub : QueueFetchAddPending(s) /\ UNCHANGED dl
    \/ \E s \in DOMAIN sub : QueueSend(s) /\ UNCHANGED dl
    \/ \E i \in Workers : WorkerRecv(i) /\ UNCHANGED dl
    \/ \E i \in Workers : WorkerFetchSubPending(i) /\ UNCHANGED dl
    \/ \E i \in Workers : WorkerFetchAddRunning(i) /\ UNCHANGED dl
    \/ \E i \in Workers : RetryAction(i) /\ UNCHANGED dl
    \/ \E i \in Workers : RetrySleep(i) /\ UNCHANGED dl
    \/ \E i \in Workers : WorkerFetchSubRunning(i) /\ UNCHANGED dl
    \/ \E i \in Workers : WorkerMatchOutcome(i) /\ UNCHANGED dl

SpecWrap == InitWrap /\ [][NextWrap]_vars

\* ------------------------------------------------- the queue, scheduled fairly

\* The steps of worker i that the runtime schedules: everything but the panic.
WorkerStep(i) ==
    \/ WorkerRecv(i)
    \/ WorkerExit(i)
    \/ WorkerFetchSubPending(i)
    \/ WorkerFetchAddRunning(i)
    \/ RetryAction(i)
    \/ RetrySleep(i)
    \/ WorkerFetchSubRunning(i)
    \/ WorkerMatchOutcome(i)

\* tokio polls every spawned worker task that can make progress; an HTTP
\* attempt ends (the client has a timeout) and a backoff sleep ends.
WorkersFair ==
    \A i \in 0..(MaxWorkers - 1) :
        WF_vars(i \in Workers /\ WorkerStep(i) /\ UNCHANGED dl)

\* The queue without the hourly reset, which touches neither a channel nor a
\* worker, and with one caller of queue().
NextLive ==
    \/ QueueFetchAddIdx(Caller) /\ UNCHANGED dl
    \/ QueueFetchAddPending(Caller) /\ UNCHANGED dl
    \/ QueueSend(Caller) /\ UNCHANGED dl
    \/ \E i \in Workers : WorkerStep(i) /\ UNCHANGED dl
    \/ \E i \in Workers : WorkerPanic(i) /\ UNCHANGED dl
    \/ ShutdownDropSenders /\ UNCHANGED dl
    \/ ShutdownAbortReset /\ UNCHANGED dl
    \/ ShutdownJoinReset /\ UNCHANGED dl
    \/ ShutdownJoinWorker /\ UNCHANGED dl
    \/ ShutdownUnwrapStats /\ UNCHANGED dl

SpecLive == Init /\ [][NextLive]_vars /\ WorkersFair

\* ------------------------------------------------------- claims: progress

\* Where task t is: <<i, 0>> for the hands of worker i, <<i, n>> for slot n of
\* channel i.
Places(t) ==
    {p \in Workers \X (0..MaxTasks) :
        IF p[2] = 0
        THEN wk[p[1]].message.id = t
        ELSE p[2] <= Len(senders[p[1]]) /\ senders[p[1]][p[2]].id = t}

\* Worker i takes task t into its hands.
Takes(i, t) == wk[i].message.id # t /\ wk'[i].message.id = t

\* No task is processed twice: a task is in at most one place, a recorded
\* task is in none, a worker takes a task only from the head of its own
\* channel and only if it was never attempted, and a recorded outcome never
\* changes.
ProcessedOnce ==
    /\ [](TerminalTasksGone /\ \A t \in TaskIds : Cardinality(Places(t)) <= 1)
    /\ [][\A t \in TaskIds :
            /\ hist[t].fate # "none" => hist'[t].fate = hist[t].fate
            /\ \A i \in Workers :
                 Takes(i, t) => /\ senders[i] # <<>>
                                /\ Head(senders[i]).id = t
                                /\ ~hist[t].attempted
                                /\ hist[t].fate = "none"]_vars

WorkerOfTaskPanicked(t) ==
    hist[t].placed \in Workers /\ wk[hist[t].placed].pc = "panicked"

C23_DispatchIndexValidAcrossWrap ==
    /\ \A s \in DOMAIN sub :
         sub[s].pc # "idle" => sub[s].idx \in 0..(worker_count - 1)
    /\ \A t \in TaskIds :
         /\ hist[t].sent # -1
         /\ hist[t].sent > 0 => hist[t].placed \in 0..(worker_count - 1)
         /\ t < last_sender_idx.issued =>
              \/ \E s \in DOMAIN sub : sub[s].pc # "idle" /\ sub[s].message.id = t
              \/ InQueue(t)
              \/ hist[t].fate # "none"

C23_Witness ==
    /\ worker_count = MaxWorkers
    /\ last_sender_idx = [cur |-> <<0, 0, 0, 1>>, issued |-> 2]
    /\ hist[0].placed = usize_rem(USIZE_MAX, worker_count)
    /\ hist[1].placed = 0
    /\ hist[0].fate # "none"
    /\ hist[1].fate # "none"

\* ------------------------------------------------------ claims: debug mode

\* The inboxes do_send was called for, in order.
SentInboxes == [n \in 1..Len(dl.sent) |-> dl.sent[n].inbox]

\* C27: in debug mode the queue has no worker and nothing is enqueued; the
\* inboxes attempted so far are a prefix of the distinct, remote, valid
\* inboxes of the input, one do_send and at most one request each; and when
\* the call returns after a serializable activity it returns Ok having
\* attempted them all, whatever the attempts met.
C27_DebugSendsInForeground ==
    LET expected == ExpectedSubmits(dl.inboxes, Len(dl.inboxes))
    IN dl.debug =>
         /\ worker_count = 0
         /\ dl.queued = <<>>
         /\ IsPrefix(SentInboxes, expected)
         /\ peer.received <= Len(dl.sent)
         /\ Len(dl.logs) =
              Cardinality({n \in 1..Len(dl.sent) :
                             dl.sent[n].resp \in {"5xx", "sign_err"}})
         /\ dl.pc = "returned" =>
              IF dl.activity = "ser_err"
              THEN dl.result = "Err_serialize" /\ dl.sent = <<>>
              ELSE dl.result = "Ok" /\ SentInboxes = expected

C27_Witness ==
    /\ dl.debug
    /\ dl.pc = "returned"
    /\ dl.result = "Ok"
    /\ Len(dl.sent) = 2
    /\ dl.sent[1].resp = "5xx"
    /\ dl.sent[2].resp = "2xx"
    /\ dl.logs = <<"warn">>
    /\ Len(dl.inboxes) > 2

\* ------------------------------------------------- claims: receive_activity

\* The order the claim gives.
ClaimedOrder ==
    <<"verify_inbox_hash", "from_slice", "verify_url_and_domain", "dereference",
      "verify_signature", "receive">>

\* C28: the callees are invoked in the claimed order; receive is invoked only
\* if the five checks before it succeeded; and a call that returns after a
\* check failed returns the error of the first failing check, that check
\* being the last callee invoked.
C28_ReceiveOnlyAfterAllChecks ==
    /\ IsPrefix(dl.trace, ClaimedOrder)
    /\ (\E n \in 1..Len(dl.trace) : dl.trace[n] = "receive") =>
           \A c \in InboxChecks : dl.input[c] = "ok"
    /\ dl.pc = "returned" =>
         IF \E n \in 1..5 : dl.input[ClaimedOrder[n]] = "err"
         THEN LET first == CHOOSE n \in 1..5 :
                             /\ dl.input[ClaimedOrder[n]] = "err"
                             /\ \A m \in 1..(n - 1) : dl.input[ClaimedOrder[m]] = "ok"
              IN /\ dl.result = Err(ClaimedOrder[first])
                 /\ Len(dl.trace) = first
         ELSE /\ Len(dl.trace) = 6
              /\ dl.result = IF dl.input["receive"] = "ok" THEN Ok
                             ELSE Err("receive")

C28_Witness ==
    /\ dl.pc = "returned"
    /\ dl.trace = ClaimedOrder
    /\ dl.result = Ok

====
